---- MODULE Spec2Model ----
(***************************************************************************)
(* Model of the goRag retrieval pipeline: the in-memory vector store       *)
(* (retriever.MemoryRetriever), the Embedder it calls, and the             *)
(* orchestrator rag.RAGService.Query that sits on top of it.               *)
(***************************************************************************)
EXTENDS Integers, Sequences, FiniteSets, TLC

(* ------------------------------------------------------------------ *)
(* Bounds and input sets                                               *)
(* ------------------------------------------------------------------ *)

\* dimension handed to NewSimpleEmbedder (128 in the examples)
Dim == 2

\* longest documents slice passed to one AddDocuments call
MaxBatch == 2

\* largest topK a caller passes; the smallest is -1
MaxTopK == 2

\* goroutines calling into the one shared store
Procs == {"p1", "p2"}

\* document ids
IDs == {"a", "b"}

None == "none"

\* retriever.Document values the callers pass in.  A text (Content, a
\* query) is modelled by the set of its distinct words, as tokenize and
\* wordFreq see it when no word repeats; words are numbered.
Docs ==
    { [ID |-> "a", Content |-> {1}, Metadata |-> "m1"],
      [ID |-> "a", Content |-> {1, 2}, Metadata |-> "m2"],
      [ID |-> "b", Content |-> {2}, Metadata |-> "m1"],
      [ID |-> "b", Content |-> {}, Metadata |-> "m2"] }

RECURSIVE SeqsUpTo(_, _)
SeqsUpTo(S, n) ==
    IF n = 0 THEN {<<>>}
    ELSE LET shorter == SeqsUpTo(S, n - 1)
         IN  shorter \cup {Append(s, x) : s \in {t \in shorter : Len(t) = n - 1}, x \in S}

Batches == SeqsUpTo(Docs, MaxBatch)

TopKs == (-1) .. MaxTopK

\* query texts
Queries == {{1}, {1, 2}}

\* texts the generation backend may answer with
Answers == {"generated answer", "No relevant documents found."}

(* ------------------------------------------------------------------ *)
(* embedding.Embedder                                                  *)
(* ------------------------------------------------------------------ *)

\* SimpleEmbedder.hashWord: md5 of the word reduced modulo the dimension
\* (an index 0..dimension-1; sequences here are 1-based)
hashWord(w) == (w % Dim) + 1

\* SimpleEmbedder.EmbedText: one slot per dimension, each word adds its
\* frequency share to the slot it hashes to.  The final L2 normalisation is
\* a positive scaling, which cosine similarity does not see; the model keeps
\* the integer counts.
EmbedVec(text) ==
    [i \in 1 .. Dim |-> Cardinality({w \in text : hashWord(w) = i})]

\* a vector of another length than the store's dimension, as an Embedder
\* whose model disagrees with the configured dimension returns it
\* (OllamaEmbedder.embedBatch copies whatever length the server sent)
WrongLen(v) == IF Len(v) = 0 THEN <<0>> ELSE SubSeq(v, 1, Len(v) - 1)

\* what one EmbedText call may give back: an error, or a vector
EmbedTextOutcomes(text) ==
    { [err |-> TRUE, vec |-> <<>>] } \cup
    { [err |-> FALSE, vec |-> v] : v \in {EmbedVec(text), WrongLen(EmbedVec(text))} }

\* the vectors slices an EmbedTexts call may give back for texts: any number
\* 0..Len(texts) of vectors, in order, each of the right or of a wrong length
RECURSIVE VecSeqs(_, _)
VecSeqs(texts, k) ==
    IF k = 0 THEN {<<>>}
    ELSE {Append(s, v) : s \in VecSeqs(texts, k - 1),
                         v \in {EmbedVec(texts[k]), WrongLen(EmbedVec(texts[k]))}}

EmbedTextsOutcomes(texts) ==
    { [err |-> TRUE, vecs |-> <<>>] } \cup
    { [err |-> FALSE, vecs |-> vs] :
        vs \in UNION {VecSeqs(texts, k) : k \in 0 .. Len(texts)} }

(* ------------------------------------------------------------------ *)
(* cosineSimilarity and the descending sort of Retrieve                *)
(* ------------------------------------------------------------------ *)

RECURSIVE Gcd(_, _)
Gcd(x, y) == IF y = 0 THEN x ELSE Gcd(y, x % y)

Abs(x) == IF x < 0 THEN -x ELSE x

RECURSIVE SumTo(_, _)
SumTo(f, n) == IF n = 0 THEN 0 ELSE f[n] + SumTo(f, n - 1)

\* A score is kept exactly, as the fraction num/den (den > 0, lowest
\* terms) equal to sign(c) * c^2 for the cosine c: the map c -> sign(c)c^2
\* is strictly increasing, so order and ties of scores are those of c.
ZeroScore == [num |-> 0, den |-> 1]

MkScore(n, d) ==
    LET g == Gcd(Abs(n), d) IN [num |-> n \div g, den |-> d \div g]

ScoreLess(x, y) == x.num * y.den < y.num * x.den

cosineSimilarity(a, b) ==
    IF Len(a) # Len(b) THEN ZeroScore
    ELSE LET dotProduct == SumTo([i \in 1 .. Len(a) |-> a[i] * b[i]], Len(a))
             normA == SumTo([i \in 1 .. Len(a) |-> a[i] * a[i]], Len(a))
             normB == SumTo([i \in 1 .. Len(a) |-> b[i] * b[i]], Len(a))
         IN  IF normA = 0 \/ normB = 0 THEN ZeroScore
             ELSE MkScore((IF dotProduct < 0 THEN -1 ELSE 1) * dotProduct * dotProduct,
                          normA * normB)

Swap(s, i, j) == [s EXCEPT ![i] = s[j], ![j] = s[i]]

\* the inner loop of the sort, from j on, for a fixed i
RECURSIVE SortInner(_, _, _)
SortInner(s, i, j) ==
    IF j > Len(s) THEN s
    ELSE SortInner(IF ScoreLess(s[i].score, s[j].score) THEN Swap(s, i, j) ELSE s,
                   i, j + 1)

\* the outer loop of the sort, from i on
RECURSIVE SortOuter(_, _)
SortOuter(s, i) ==
    IF i >= Len(s) THEN s
    ELSE SortOuter(SortInner(s, i, i + 1), i + 1)

\* the sort left out: scores stay in range order
SortDescNoSort(s) == s

SortDesc(s) == SortOuter(s, 1)

(* ------------------------------------------------------------------ *)
(* State                                                               *)
(* ------------------------------------------------------------------ *)

VARIABLES
    documents,   \* MemoryRetriever.documents: id -> Document
    vectors,     \* MemoryRetriever.vectors: id -> embedding
    dimension,   \* MemoryRetriever.dimension
    mu,          \* MemoryRetriever.mu: the writer holding it, the readers holding it
    pc,          \* where each goroutine is
    args,        \* the arguments of the call each goroutine is in
    res,         \* what the store call of each goroutine has computed to return
    qry,         \* RAGService.Query of each goroutine: messages, answer, outcome
    pre,         \* history: the store as the running AddDocuments found it
    tomb,        \* history: per id, whether the last write of it that completed was a deletion
    items,       \* the items slice a Ranker is called with
    ranked,      \* the Ranker called and the slice it returned
    stream,      \* what a GenerateStream call is given: the LLM and what its backend produces
    gs           \* the GenerateStream call: its position, the onChunk calls made, its return

storeVars == <<documents, vectors, dimension, mu, pc, args, res, qry, pre, tomb>>

rankVars == <<items, ranked>>

streamVars == <<stream, gs>>

vars == <<storeVars, rankVars, streamVars>>

NoArgs == [docs |-> <<>>, id |-> None, query |-> {}, topK |-> 0]

\* an error value is the chain of its messages, outermost first, as
\* fmt.Errorf("...: %w", err) builds it; nil is the empty chain
NoError == <<>>

\* the error an Embedder call returns when it fails
EmbedderError == <<"embedder error">>

Wrap(msg, err) == <<msg>> \o err

NoRes == [status |-> None, results |-> <<>>, qv |-> <<>>, vecs |-> <<>>, err |-> NoError]

\* a collaborator field of RAGService: a nil *Service, a Service built
\* over a nil Retriever or LLM, or a Service over a real one
ServiceStates == {"nil", "wrapsNil", "set"}

\* the RAGService values Query is called on
RAGServices == [retrieverService : ServiceStates, llmService : ServiceStates]

Configured == [retrieverService |-> "set", llmService |-> "set"]

\* what a Generate call gave back
NoGen == [status |-> None, text |-> "", err |-> NoError]

NoQry == [active |-> FALSE, svc |-> Configured, got |-> None, messages |-> <<>>,
          gen |-> NoGen, answer |-> "", status |-> None, stage |-> None,
          err |-> NoError, retCalls |-> 0, genCalls |-> 0]

EmptyMap == [x \in {} |-> x]

Put(f, k, v) == [x \in (DOMAIN f) \cup {k} |-> IF x = k THEN v ELSE f[x]]

Del(f, k) == [x \in (DOMAIN f) \ {k} |-> f[x]]

\* a Go map read: the zero value (a nil slice) for a missing key
VectorAt(vmap, id) == IF id \in DOMAIN vmap THEN vmap[id] ELSE <<>>

Store == [documents |-> documents, vectors |-> vectors]

NoStore == [documents |-> EmptyMap, vectors |-> EmptyMap]

\* no Ranker has been called
NoRanked == [by |-> None, threshold |-> [num |-> 0, den |-> 1], result |-> <<>>]

\* empty maps, dimension from the Embedder, nobody inside
NewMemoryRetriever ==
    /\ documents = EmptyMap
    /\ vectors = EmptyMap
    /\ dimension = Dim
    /\ mu = [writer |-> None, readers |-> {}]
    /\ pc = [p \in Procs |-> "idle"]
    /\ args = [p \in Procs |-> NoArgs]
    /\ res = [p \in Procs |-> NoRes]
    /\ qry = [p \in Procs |-> NoQry]
    /\ pre = NoStore
    /\ tomb = [i \in IDs |-> "no"]

\* no GenerateStream call is given or made
NoStream == [llm |-> None, ready |-> TRUE, chunks |-> <<>>]

NoGs == [status |-> None, pos |-> 1, calls |-> <<>>, err |-> NoError]

\* a fresh store; no ranking and no generation is in progress
Init ==
    /\ NewMemoryRetriever
    /\ items = <<>>
    /\ ranked = NoRanked
    /\ stream = NoStream
    /\ gs = NoGs

(* ------------------------------------------------------------------ *)
(* The scan of Retrieve: scoring, sorting, cutting                      *)
(* ------------------------------------------------------------------ *)

\* the orders in which `for id, doc := range m.documents` may visit the keys
Orders(S) ==
    {o \in [1 .. Cardinality(S) -> S] : \A i, j \in DOMAIN o : o[i] = o[j] => i = j}

\* the scores slice as the range loop appends to it
ScoreAll(dmap, vmap, qv, order) ==
    [i \in 1 .. Len(order) |->
        [doc |-> dmap[order[i]],
         score |-> cosineSimilarity(qv, VectorAt(vmap, order[i]))]]

\* the clamp off by one: a topK that reaches len(scores) loses the last result
TakeTopKOffByOne(scores, topK) ==
    LET k == IF topK >= Len(scores) THEN Len(scores) - 1 ELSE topK
    IN  IF k < 0 THEN [status |-> "panic", results |-> <<>>]
        ELSE [status |-> "ok",
              results |-> [i \in 1 .. k |->
                             [Document |-> scores[i].doc, Score |-> scores[i].score]]]

\* "take topK": clamp topK to len(scores), make([]RetrievalResult, topK),
\* copy.  make panics for a negative length.
TakeTopK(scores, topK) ==
    LET k == IF topK > Len(scores) THEN Len(scores) ELSE topK
    IN  IF k < 0 THEN [status |-> "panic", results |-> <<>>]
        ELSE [status |-> "ok",
              results |-> [i \in 1 .. k |->
                             [Document |-> scores[i].doc, Score |-> scores[i].score]]]

\* the part of Retrieve after the query is embedded
RetrieveResults(dmap, vmap, qv, order, topK) ==
    TakeTopK(SortDesc(ScoreAll(dmap, vmap, qv, order)), topK)

\* id is stored and some query ranks it first, whatever the range order
IsTopMatch(id) ==
    /\ id \in DOMAIN documents
    /\ \E q \in Queries :
         \A order \in Orders(DOMAIN documents) :
            LET r == RetrieveResults(documents, vectors, EmbedVec(q), order, 1)
            IN  Len(r.results) = 1 /\ r.results[1].Document.ID = id

(* ------------------------------------------------------------------ *)
(* MemoryRetriever.AddDocuments                                        *)
(* ------------------------------------------------------------------ *)

\* the lock taken as a reader takes it: a writer is waited for, readers are not
AddLockSharedWithReaders(p, docs) ==
    /\ pc[p] = "idle"
    /\ mu.writer = None
    /\ mu' = [mu EXCEPT !.writer = p]
    /\ pc' = [pc EXCEPT ![p] = "add_embed"]
    /\ args' = [args EXCEPT ![p] = [NoArgs EXCEPT !.docs = docs]]
    /\ UNCHANGED <<documents, vectors, dimension, res, qry, pre, tomb>>
    /\ UNCHANGED rankVars
    /\ UNCHANGED streamVars

\* m.mu.Lock(): nobody holds the lock, for reading or for writing
AddLock(p, docs) ==
    /\ pc[p] = "idle"
    /\ mu.writer = None /\ mu.readers = {}
    /\ mu' = [mu EXCEPT !.writer = p]
    /\ pc' = [pc EXCEPT ![p] = "add_embed"]
    /\ args' = [args EXCEPT ![p] = [NoArgs EXCEPT !.docs = docs]]
    /\ UNCHANGED <<documents, vectors, dimension, res, qry, pre, tomb>>
    /\ UNCHANGED rankVars
    /\ UNCHANGED streamVars

\* the loop that keeps an entry whose id is already stored (insert, not upsert)
RECURSIVE StoreLoopKeepOld(_, _, _, _, _)
StoreLoopKeepOld(docs, vecs, i, dmap, vmap) ==
    IF i > Len(docs) THEN [documents |-> dmap, vectors |-> vmap, panic |-> FALSE]
    ELSE IF docs[i].ID \in DOMAIN dmap
         THEN StoreLoopKeepOld(docs, vecs, i + 1, dmap, vmap)
         ELSE LET d1 == Put(dmap, docs[i].ID, docs[i])
              IN  IF i > Len(vecs)
                  THEN [documents |-> d1, vectors |-> vmap, panic |-> TRUE]
                  ELSE StoreLoopKeepOld(docs, vecs, i + 1, d1, Put(vmap, docs[i].ID, vecs[i]))

\* the loop that stores documents[doc.ID] and vectors[doc.ID], from index i
\* on.  vectors[i] past the end of the returned slice is an index out of
\* range: the goroutine panics, with documents[doc.ID] already written.
RECURSIVE StoreLoop(_, _, _, _, _)
StoreLoop(docs, vecs, i, dmap, vmap) ==
    IF i > Len(docs) THEN [documents |-> dmap, vectors |-> vmap, panic |-> FALSE]
    ELSE LET d1 == Put(dmap, docs[i].ID, docs[i])
         IN  IF i > Len(vecs)
             THEN [documents |-> d1, vectors |-> vmap, panic |-> TRUE]
             ELSE StoreLoop(docs, vecs, i + 1, d1, Put(vmap, docs[i].ID, vecs[i]))

\* the ids for which the loop reached documents[doc.ID] = doc
Written(docs, vecs) == {docs[i].ID : i \in 1 .. IF Len(vecs) < Len(docs) THEN Len(vecs) + 1 ELSE Len(docs)}

\* EmbedTexts returns, then the store loop runs, all under the write lock
AddStore(p) ==
    /\ pc[p] = "add_embed"
    /\ LET docs == args[p].docs
           texts == [i \in 1 .. Len(docs) |-> docs[i].Content]
       IN  \E out \in EmbedTextsOutcomes(texts) :
             IF out.err
             THEN /\ res' = [res EXCEPT ![p] =
                               [NoRes EXCEPT !.status = "error",
                                             !.err = Wrap("failed to embed documents", EmbedderError)]]
                  /\ UNCHANGED <<documents, vectors, tomb>>
             ELSE LET r == StoreLoop(docs, out.vecs, 1, documents, vectors)
                  IN  /\ documents' = r.documents
                      /\ vectors' = r.vectors
                      /\ res' = [res EXCEPT ![p] =
                                   [NoRes EXCEPT !.status = IF r.panic THEN "panic" ELSE "ok",
                                                 !.vecs = out.vecs]]
                      /\ tomb' = [i \in IDs |->
                                    IF i \in Written(docs, out.vecs) THEN "no" ELSE tomb[i]]
    /\ pre' = Store
    /\ pc' = [pc EXCEPT ![p] = "add_ret"]
    /\ UNCHANGED <<dimension, mu, args, qry>>
    /\ UNCHANGED rankVars
    /\ UNCHANGED streamVars

\* the deferred m.mu.Unlock() and the return (or the panic leaving the call)
AddReturn(p) ==
    /\ pc[p] = "add_ret"
    /\ mu' = [mu EXCEPT !.writer = None]
    /\ pc' = [pc EXCEPT ![p] = "idle"]
    /\ args' = [args EXCEPT ![p] = NoArgs]
    /\ res' = [res EXCEPT ![p] = NoRes]
    /\ pre' = NoStore
    /\ UNCHANGED <<documents, vectors, dimension, qry, tomb>>
    /\ UNCHANGED rankVars
    /\ UNCHANGED streamVars

(* ------------------------------------------------------------------ *)
(* MemoryRetriever.DeleteDocument                                      *)
(* ------------------------------------------------------------------ *)

DelLock(p, id) ==
    /\ pc[p] = "idle"
    /\ mu.writer = None /\ mu.readers = {}
    /\ mu' = [mu EXCEPT !.writer = p]
    /\ pc' = [pc EXCEPT ![p] = "del"]
    /\ args' = [args EXCEPT ![p] = [NoArgs EXCEPT !.id = id]]
    /\ UNCHANGED <<documents, vectors, dimension, res, qry, pre, tomb>>
    /\ UNCHANGED rankVars
    /\ UNCHANGED streamVars

\* the deletion that forgets the documents map
DeleteEntryVectorsOnly(store, id) ==
    [documents |-> store.documents, vectors |-> Del(store.vectors, id)]

\* delete(m.documents, id); delete(m.vectors, id)
DeleteEntry(store, id) ==
    [documents |-> Del(store.documents, id), vectors |-> Del(store.vectors, id)]

\* a deletion that reports a missing id as an error
DeleteStatusNotFound(store, id) ==
    IF id \in DOMAIN store.documents THEN "ok" ELSE "error"

\* DeleteDocument has one return: nil
DeleteStatus(store, id) == "ok"

DelApply(p) ==
    /\ pc[p] = "del"
    /\ LET id == args[p].id
           after == DeleteEntry(Store, id)
       IN  /\ documents' = after.documents
           /\ vectors' = after.vectors
           /\ tomb' = [tomb EXCEPT ![id] =
                          IF IsTopMatch(id) \/ tomb[id] = "deltop" THEN "deltop" ELSE "del"]
           /\ res' = [res EXCEPT ![p] = [NoRes EXCEPT !.status = DeleteStatus(Store, id)]]
    /\ pre' = Store
    /\ pc' = [pc EXCEPT ![p] = "del_ret"]
    /\ UNCHANGED <<dimension, mu, args, qry>>
    /\ UNCHANGED rankVars
    /\ UNCHANGED streamVars

DelReturn(p) ==
    /\ pc[p] = "del_ret"
    /\ mu' = [mu EXCEPT !.writer = None]
    /\ pc' = [pc EXCEPT ![p] = "idle"]
    /\ args' = [args EXCEPT ![p] = NoArgs]
    /\ res' = [res EXCEPT ![p] = NoRes]
    /\ pre' = NoStore
    /\ UNCHANGED <<documents, vectors, dimension, qry, tomb>>
    /\ UNCHANGED rankVars
    /\ UNCHANGED streamVars

(* ------------------------------------------------------------------ *)
(* MemoryRetriever.Retrieve                                            *)
(* ------------------------------------------------------------------ *)

\* m.mu.RLock(): no writer holds the lock
RLock(p, query, topK) ==
    /\ pc[p] = "idle"
    /\ mu.writer = None
    /\ mu' = [mu EXCEPT !.readers = @ \cup {p}]
    /\ pc' = [pc EXCEPT ![p] = "ret_embed"]
    /\ args' = [args EXCEPT ![p] = [NoArgs EXCEPT !.query = query, !.topK = topK]]

\* a direct call of Retrieve
RetLock(p, query, topK) ==
    /\ RLock(p, query, topK)
    /\ UNCHANGED <<documents, vectors, dimension, res, qry, pre, tomb>>
    /\ UNCHANGED rankVars
    /\ UNCHANGED streamVars

\* EmbedText returns, then scoring, sorting and cutting, all under the read lock
RetScan(p) ==
    /\ pc[p] = "ret_embed"
    /\ \E out \in EmbedTextOutcomes(args[p].query) :
         IF out.err
         THEN res' = [res EXCEPT ![p] =
                        [NoRes EXCEPT !.status = "error",
                                      !.err = Wrap("failed to embed query", EmbedderError)]]
         ELSE \E order \in Orders(DOMAIN documents) :
                LET r == RetrieveResults(documents, vectors, out.vec, order, args[p].topK)
                IN  res' = [res EXCEPT ![p] =
                              [NoRes EXCEPT !.status = r.status, !.results = r.results,
                                            !.qv = out.vec]]
    /\ pc' = [pc EXCEPT ![p] = "ret_ret"]
    /\ UNCHANGED <<documents, vectors, dimension, mu, args, qry, pre, tomb>>
    /\ UNCHANGED rankVars
    /\ UNCHANGED streamVars

\* the deferred m.mu.RUnlock() and the return of a direct call
RetReturn(p) ==
    /\ pc[p] = "ret_ret"
    /\ ~qry[p].active
    /\ mu' = [mu EXCEPT !.readers = @ \ {p}]
    /\ pc' = [pc EXCEPT ![p] = "idle"]
    /\ args' = [args EXCEPT ![p] = NoArgs]
    /\ res' = [res EXCEPT ![p] = NoRes]
    /\ UNCHANGED <<documents, vectors, dimension, qry, pre, tomb>>
    /\ UNCHANGED rankVars
    /\ UNCHANGED streamVars

(* ------------------------------------------------------------------ *)
(* RAGService.Query                                                    *)
(* ------------------------------------------------------------------ *)

Sentinel == "No relevant documents found."

\* the parts joined last to first
RECURSIVE JoinReversed(_, _)
JoinReversed(parts, sep) ==
    IF Len(parts) = 0 THEN <<>>
    ELSE IF Len(parts) = 1 THEN <<parts[1]>>
    ELSE <<parts[Len(parts)], sep>> \o JoinReversed(SubSeq(parts, 1, Len(parts) - 1), sep)

\* strings.Join(contextParts, "\n\n"): the parts with the separator between
RECURSIVE Join(_, _)
Join(parts, sep) ==
    IF Len(parts) = 0 THEN <<>>
    ELSE IF Len(parts) = 1 THEN <<parts[1]>>
    ELSE <<parts[1], sep>> \o Join(Tail(parts), sep)

\* prompt.Builder.Build over DefaultTemplate: the template's literal pieces
\* with context and query substituted
BuildPrompt(context, query) ==
    <<"System: ", "You are a helpful assistant that answers questions based on the provided context.",
      "\n\nUser: ", "Context: ">> \o context \o <<"\n\nQuestion: ", query, "\n\nAnswer:">>

\* the two checks Query opens with: r.retrieverService == nil, then
\* r.llmService == nil.  What a non-nil Service wraps is not looked at.
QueryConfigCheck(svc) ==
    IF svc.retrieverService = "nil" THEN Wrap("retriever service is not initialized", NoError)
    ELSE IF svc.llmService = "nil" THEN Wrap("llm service is not initialized", NoError)
    ELSE NoError

\* both checks pass and the retriever Service wraps a Retriever: Query calls
\* retrieverService.Retrieve, which calls MemoryRetriever.Retrieve
QueryStart(p, svc, query, topK) ==
    /\ QueryConfigCheck(svc) = NoError
    /\ svc.retrieverService = "set"
    /\ RLock(p, query, topK)
    /\ qry' = [qry EXCEPT ![p] = [NoQry EXCEPT !.active = TRUE, !.svc = svc,
                                                !.retCalls = 1]]
    /\ UNCHANGED <<documents, vectors, dimension, res, pre, tomb>>
    /\ UNCHANGED rankVars
    /\ UNCHANGED streamVars

\* Query on a service that is not fully set up.  A check that fails returns
\* its error; when both pass and the retriever Service wraps a nil
\* Retriever, retrieverService.Retrieve calls a method of a nil interface
\* value and the goroutine panics.
QueryUnset(p, svc, query, topK) ==
    /\ pc[p] = "idle"
    /\ QueryConfigCheck(svc) # NoError \/ svc.retrieverService # "set"
    /\ args' = [args EXCEPT ![p] = [NoArgs EXCEPT !.query = query, !.topK = topK]]
    /\ IF QueryConfigCheck(svc) # NoError
       THEN qry' = [qry EXCEPT ![p] =
                      [NoQry EXCEPT !.active = TRUE, !.svc = svc, !.status = "error",
                                    !.stage = "configuration",
                                    !.err = QueryConfigCheck(svc)]]
       ELSE qry' = [qry EXCEPT ![p] =
                      [NoQry EXCEPT !.active = TRUE, !.svc = svc, !.retCalls = 1,
                                    !.got = "panic", !.status = "panic",
                                    !.stage = "retrieval"]]
    /\ pc' = [pc EXCEPT ![p] = "q_ret"]
    /\ UNCHANGED <<documents, vectors, dimension, mu, res, pre, tomb>>
    /\ UNCHANGED rankVars
    /\ UNCHANGED streamVars

\* Query answering with the sentinel when Retrieve fails
QueryStepFallbackOnError(r) ==
    IF r.status = "panic" THEN "panic"
    ELSE IF r.status = "error" THEN "sentinel"
    ELSE IF Len(r.results) = 0 THEN "sentinel"
    ELSE "generate"

\* Query without its empty-list check
QueryStepNoEmptyCheck(r) ==
    IF r.status = "panic" THEN "panic"
    ELSE IF r.status = "error" THEN "abort"
    ELSE "generate"

\* what Query does with what Retrieve returned: a panic passes through, an
\* error aborts, an empty list gives the sentinel, anything else goes on
\* to generation
QueryStep(r) ==
    IF r.status = "panic" THEN "panic"
    ELSE IF r.status = "error" THEN "abort"
    ELSE IF Len(r.results) = 0 THEN "sentinel"
    ELSE "generate"

\* what Retrieve handed to Query
Got(r) ==
    IF r.status = "ok" THEN (IF Len(r.results) = 0 THEN "empty" ELSE "results")
    ELSE r.status

\* Retrieve returns into Query (read lock released); Query handles the
\* error, the empty list, or builds context, prompt and messages and calls
\* llmService.Generate
QueryRetrieved(p) ==
    /\ pc[p] = "ret_ret"
    /\ qry[p].active
    /\ mu' = [mu EXCEPT !.readers = @ \ {p}]
    /\ res' = [res EXCEPT ![p] = NoRes]
    /\ LET r == res[p]
           contextParts == [i \in 1 .. Len(r.results) |-> r.results[i].Document.Content]
           context == Join(contextParts, "\n\n")
           promptText == BuildPrompt(context, args[p].query)
           step == QueryStep(r)
       IN  CASE step = "panic" ->
                  /\ qry' = [qry EXCEPT ![p].got = Got(r), ![p].status = "panic",
                                        ![p].stage = "retrieval"]
                  /\ pc' = [pc EXCEPT ![p] = "q_ret"]
             [] step = "abort" ->
                  /\ qry' = [qry EXCEPT ![p].got = Got(r), ![p].status = "error",
                                        ![p].stage = "retrieval",
                                        ![p].err = Wrap("failed to retrieve documents", r.err)]
                  /\ pc' = [pc EXCEPT ![p] = "q_ret"]
             [] step = "sentinel" ->
                  /\ qry' = [qry EXCEPT ![p].got = Got(r), ![p].status = "ok",
                                        ![p].answer = Sentinel]
                  /\ pc' = [pc EXCEPT ![p] = "q_ret"]
             [] OTHER ->
                  /\ qry' = [qry EXCEPT ![p].got = Got(r),
                                        ![p].messages =
                                          <<[Role |-> "user", Content |-> promptText]>>,
                                        ![p].genCalls = @ + 1]
                  /\ pc' = [pc EXCEPT ![p] = "q_gen"]
    /\ UNCHANGED <<documents, vectors, dimension, args, pre, tomb>>
    /\ UNCHANGED rankVars
    /\ UNCHANGED streamVars

\* the error a Generate call returns when it fails
LLMError == <<"llm error">>

\* what llmService.Generate may give back: an error or a text from an LLM;
\* a panic when the Service wraps a nil LLM
GenerateOutcomes(svc) ==
    IF svc.llmService = "wrapsNil"
    THEN {[NoGen EXCEPT !.status = "panic"]}
    ELSE {[NoGen EXCEPT !.status = "error", !.err = LLMError]} \cup
         {[NoGen EXCEPT !.status = "ok", !.text = text] : text \in Answers}

\* the end of Query: the panic passes through, an error is wrapped and
\* returned with no answer, a text is returned as it is
QueryFinish(q, out) ==
    IF out.status = "panic"
    THEN [q EXCEPT !.gen = out, !.status = "panic", !.stage = "generation"]
    ELSE IF out.status = "error"
    THEN [q EXCEPT !.gen = out, !.status = "error", !.stage = "generation",
                   !.err = Wrap("failed to generate answer", out.err)]
    ELSE [q EXCEPT !.gen = out, !.status = "ok", !.answer = out.text]

\* Generate called once more when it has failed
QueryGeneratedRetrying(p) ==
    /\ pc[p] = "q_gen"
    /\ \E out \in GenerateOutcomes(qry[p].svc) :
         IF out.status = "error" /\ qry[p].genCalls < 2
         THEN /\ qry' = [qry EXCEPT ![p].genCalls = @ + 1]
              /\ pc' = pc
         ELSE /\ qry' = [qry EXCEPT ![p] = QueryFinish(qry[p], out)]
              /\ pc' = [pc EXCEPT ![p] = "q_ret"]
    /\ UNCHANGED <<documents, vectors, dimension, mu, args, res, pre, tomb>>
    /\ UNCHANGED rankVars
    /\ UNCHANGED streamVars

\* llmService.Generate returns (or panics) and Query ends
QueryGenerated(p) ==
    /\ pc[p] = "q_gen"
    /\ \E out \in GenerateOutcomes(qry[p].svc) :
         qry' = [qry EXCEPT ![p] = QueryFinish(qry[p], out)]
    /\ pc' = [pc EXCEPT ![p] = "q_ret"]
    /\ UNCHANGED <<documents, vectors, dimension, mu, args, res, pre, tomb>>
    /\ UNCHANGED rankVars
    /\ UNCHANGED streamVars

QueryReturn(p) ==
    /\ pc[p] = "q_ret"
    /\ pc' = [pc EXCEPT ![p] = "idle"]
    /\ args' = [args EXCEPT ![p] = NoArgs]
    /\ qry' = [qry EXCEPT ![p] = NoQry]
    /\ UNCHANGED <<documents, vectors, dimension, mu, res, pre, tomb>>
    /\ UNCHANGED rankVars
    /\ UNCHANGED streamVars

(* ------------------------------------------------------------------ *)
(* ranker: SimpleRanker, Reranker, BM25Ranker                          *)
(* ------------------------------------------------------------------ *)

\* longest items slice passed to one Rank call
MaxItems == 3

\* scores the callers pass, whole numbers held as fractions
ItemScores == {[num |-> n, den |-> 1] : n \in -1 .. 2}

\* ranker.RankedItem values
RankedItems == {[ID |-> id, Score |-> sc] : id \in IDs, sc \in ItemScores}

ItemLists == SeqsUpTo(RankedItems, MaxItems)

\* values of Reranker.scoreThreshold
Thresholds == {[num |-> n, den |-> 1] : n \in 0 .. 1}

\* sort.Slice(result, func(i, j) { return result[i].Score > result[j].Score }):
\* the slice is left in some order in which no item stands before an item
\* of higher score.  sort.Slice is not a stable sort (the library sorts by
\* insertion up to 12 elements and by pattern-defeating quicksort, which moves
\* the pivot across equal elements, above that), so every such order of the
\* items is an outcome; the slices here are shorter than the library's limit.
SortSliceOutcomes(s) ==
    LET n == Len(s)
        sorted(o) == \A i, j \in 1 .. n :
                        i < j => ~ScoreLess(s[o[i]].Score, s[o[j]].Score)
    IN  {[k \in 1 .. n |-> s[o[k]]] : o \in {o \in Orders(1 .. n) : sorted(o)}}

\* SimpleRanker.Rank: copy, sort.Slice by descending score
SimpleRankerRank(its) == SortSliceOutcomes(its)

\* the loop of Reranker.Rank that keeps item.Score >= r.scoreThreshold
FilterLow(its, threshold) ==
    SelectSeq(its, LAMBDA it : ~ScoreLess(it.Score, threshold))

\* the loop of diversityFilter from index i on: an item is appended unless
\* its ID is in seen
RECURSIVE DiversityLoop(_, _, _, _)
DiversityLoop(its, i, seen, filtered) ==
    IF i > Len(its) THEN filtered
    ELSE IF its[i].ID \in seen
         THEN DiversityLoop(its, i + 1, seen, filtered)
         ELSE DiversityLoop(its, i + 1, seen \cup {its[i].ID}, Append(filtered, its[i]))

\* the filter left out: every survivor of the threshold is returned
diversityFilterKeepAll(its) == its

\* Reranker.diversityFilter
diversityFilter(its) ==
    IF Len(its) <= 1 THEN its ELSE DiversityLoop(its, 1, {}, <<>>)

\* Reranker.Rank: filter, sort.Slice by descending score, diversityFilter
RerankerRank(its, threshold) ==
    IF Len(its) = 0 THEN {its}
    ELSE {diversityFilter(r) : r \in SortSliceOutcomes(FilterLow(its, threshold))}

AddScore(x, y) == MkScore(x.num * y.den + y.num * x.den, x.den * y.den)

RECURSIVE SumScores(_, _)
SumScores(its, n) ==
    IF n = 0 THEN ZeroScore ELSE AddScore(its[n].Score, SumScores(its, n - 1))

\* avgScore of BM25Ranker.Rank: the sum of the scores over len(result)
AvgScore(its) ==
    LET sum == SumScores(its, Len(its)) IN MkScore(sum.num, sum.den * Len(its))

\* the 0.001 of math.Max(avgScore, 0.001)
Epsilon == [num |-> 1, den |-> 1000]

MaxScore(x, y) == IF ScoreLess(x, y) THEN y ELSE x

\* normalizedScore * result[i].Score, with normalizedScore =
\* result[i].Score / math.Max(avgScore, 0.001); the arithmetic is exact
\* here, float64 rounds it
Rescore(sc, avg) ==
    LET m == MaxScore(avg, Epsilon)
    IN  MkScore(sc.num * sc.num * m.den, sc.den * sc.den * m.num)

\* BM25Ranker.Rank: copy, rescore every item against the average, sort.Slice
BM25RankerRank(its) ==
    IF Len(its) = 0 THEN {its}
    ELSE SortSliceOutcomes(
            [i \in 1 .. Len(its) |->
                [ID |-> its[i].ID, Score |-> Rescore(its[i].Score, AvgScore(its))]])

\* a call of SimpleRanker.Rank
SimpleRank ==
    /\ ranked.by = None
    /\ \E out \in SimpleRankerRank(items) :
         ranked' = [by |-> "SimpleRanker", threshold |-> ZeroScore, result |-> out]
    /\ UNCHANGED <<items, storeVars, streamVars>>

\* a call of Reranker.Rank on a Reranker built with threshold
Rerank(threshold) ==
    /\ ranked.by = None
    /\ \E out \in RerankerRank(items, threshold) :
         ranked' = [by |-> "Reranker", threshold |-> threshold, result |-> out]
    /\ UNCHANGED <<items, storeVars, streamVars>>

\* a call of BM25Ranker.Rank
BM25Rank ==
    /\ ranked.by = None
    /\ \E out \in BM25RankerRank(items) :
         ranked' = [by |-> "BM25Ranker", threshold |-> ZeroScore, result |-> out]
    /\ UNCHANGED <<items, storeVars, streamVars>>

(* ------------------------------------------------------------------ *)
(* llm: MockLLM.GenerateStream and Ollama.GenerateStream               *)
(* ------------------------------------------------------------------ *)

\* longest stream a backend produces for one call
MaxChunks == 3

\* fragment texts
Contents == {"x", "y"}

\* what decoder.Decode reads from the response body: an ollamaChatResponse
\* with its message content, done flag and error text, or bytes that are
\* not JSON (bad)
OllamaChunks ==
    {[content |-> c, done |-> d, error |-> e, bad |-> FALSE] :
        c \in Contents \cup {""}, d \in BOOLEAN, e \in {"", "model error"}}
    \cup {[content |-> "", done |-> FALSE, error |-> "", bad |-> TRUE]}

\* strings.Fields(response): the words of the reply, none of them empty
MockWords ==
    {[content |-> c, done |-> FALSE, error |-> "", bad |-> FALSE] : c \in Contents}

\* the calls of GenerateStream: the LLM, whether it gets as far as producing
\* (MockLLM: Generate returns no error; Ollama: the client is set up, the
\* request is sent and answered with status 200), and what is produced
Streams ==
    {[llm |-> "MockLLM", ready |-> r, chunks |-> cs] :
        r \in BOOLEAN, cs \in SeqsUpTo(MockWords, MaxChunks)}
    \cup {[llm |-> "Ollama", ready |-> r, chunks |-> cs] :
        r \in BOOLEAN, cs \in SeqsUpTo(OllamaChunks, MaxChunks)}

\* the error a callback returns when it fails
CallbackError == <<"callback failed">>

\* what one callback call may return: nil or an error
CallbackReturns == {NoError, CallbackError}

\* the error decoder.Decode returns for bytes that are not JSON
DecodeError == <<"invalid character">>

\* the callback called with frag for what was produced at g.pos, returning ret
Called(g, frag, ret) ==
    [g EXCEPT !.calls = Append(@, [frag |-> frag, at |-> g.pos, ret |-> ret])]

\* one iteration of MockLLM.GenerateStream's loop over words: the callback
\* gets word + " ", and its error is returned as it is
MockStep(g, word, ret) ==
    LET called == Called(g, <<word.content, " ">>, ret)
    IN  IF ret # NoError
        THEN [called EXCEPT !.status = "error", !.err = ret, !.pos = @ + 1]
        ELSE [called EXCEPT !.pos = @ + 1]

\* the loop going on after a callback has failed
OllamaStepIgnoringCallbackError(g, c, ret) ==
    IF c.bad
    THEN [g EXCEPT !.status = "error", !.pos = @ + 1,
                   !.err = Wrap("failed to decode stream response", DecodeError)]
    ELSE IF c.error # ""
    THEN [g EXCEPT !.status = "error", !.pos = @ + 1,
                   !.err = Wrap("Ollama API error", <<c.error>>)]
    ELSE LET called == IF c.content # "" THEN Called(g, <<c.content>>, ret) ELSE g
         IN  IF c.done
             THEN [called EXCEPT !.status = "ok", !.pos = @ + 1]
             ELSE [called EXCEPT !.pos = @ + 1]

\* one iteration of Ollama.GenerateStream's loop for the decoded chunk c:
\* a decode error and an error chunk return an error; a non-empty content
\* goes to the callback, whose error is wrapped and returned; done ends
\* the loop
OllamaStep(g, c, ret) ==
    IF c.bad
    THEN [g EXCEPT !.status = "error", !.pos = @ + 1,
                   !.err = Wrap("failed to decode stream response", DecodeError)]
    ELSE IF c.error # ""
    THEN [g EXCEPT !.status = "error", !.pos = @ + 1,
                   !.err = Wrap("Ollama API error", <<c.error>>)]
    ELSE LET called == IF c.content # "" THEN Called(g, <<c.content>>, ret) ELSE g
         IN  IF c.content # "" /\ ret # NoError
             THEN [called EXCEPT !.status = "error", !.pos = @ + 1,
                                 !.err = Wrap("callback error", ret)]
             ELSE IF c.done
             THEN [called EXCEPT !.status = "ok", !.pos = @ + 1]
             ELSE [called EXCEPT !.pos = @ + 1]

\* MockLLM.GenerateStream up to its loop: m.Generate, whose error is returned
MockStart ==
    /\ stream.llm = "MockLLM"
    /\ gs.status = None
    /\ gs' = IF stream.ready
             THEN [gs EXCEPT !.status = "running"]
             ELSE [gs EXCEPT !.status = "error", !.err = <<"no messages provided">>]
    /\ UNCHANGED <<stream, storeVars, rankVars>>

\* the callback is called with the next word
MockWord ==
    /\ stream.llm = "MockLLM"
    /\ gs.status = "running"
    /\ gs.pos <= Len(stream.chunks)
    /\ \E ret \in CallbackReturns : gs' = MockStep(gs, stream.chunks[gs.pos], ret)
    /\ UNCHANGED <<stream, storeVars, rankVars>>

\* the words are used up: return nil
MockReturn ==
    /\ stream.llm = "MockLLM"
    /\ gs.status = "running"
    /\ gs.pos > Len(stream.chunks)
    /\ gs' = [gs EXCEPT !.status = "ok"]
    /\ UNCHANGED <<stream, storeVars, rankVars>>

\* Ollama.GenerateStream up to its loop: the nil checks, the request, the
\* status code; each failure returns an error
OllamaStart ==
    /\ stream.llm = "Ollama"
    /\ gs.status = None
    /\ gs' = IF stream.ready
             THEN [gs EXCEPT !.status = "running"]
             ELSE [gs EXCEPT !.status = "error",
                             !.err = <<"failed to send request to Ollama">>]
    /\ UNCHANGED <<stream, storeVars, rankVars>>

\* the next chunk is decoded and handled
OllamaChunk ==
    /\ stream.llm = "Ollama"
    /\ gs.status = "running"
    /\ gs.pos <= Len(stream.chunks)
    /\ \E ret \in CallbackReturns : gs' = OllamaStep(gs, stream.chunks[gs.pos], ret)
    /\ UNCHANGED <<stream, storeVars, rankVars>>

\* decoder.Decode returns io.EOF: the loop ends, return nil
OllamaEOF ==
    /\ stream.llm = "Ollama"
    /\ gs.status = "running"
    /\ gs.pos > Len(stream.chunks)
    /\ gs' = [gs EXCEPT !.status = "ok"]
    /\ UNCHANGED <<stream, storeVars, rankVars>>

(* ------------------------------------------------------------------ *)
(* Specification                                                       *)
(* ------------------------------------------------------------------ *)

\* the store operations of goroutine p
StoreOps(p) ==
    \/ \E docs \in Batches : AddLock(p, docs)
    \/ AddStore(p)
    \/ AddReturn(p)
    \/ \E id \in IDs : DelLock(p, id)
    \/ DelApply(p)
    \/ DelReturn(p)
    \/ \E query \in Queries, topK \in TopKs : RetLock(p, query, topK)
    \/ RetScan(p)
    \/ RetReturn(p)

\* the Query operation of goroutine p
QueryOps(p) ==
    \/ \E svc \in RAGServices, query \in Queries, topK \in TopKs :
         QueryStart(p, svc, query, topK)
    \/ \E svc \in RAGServices, query \in Queries, topK \in TopKs :
         QueryUnset(p, svc, query, topK)
    \/ RetScan(p)
    \/ QueryRetrieved(p)
    \/ QueryGenerated(p)
    \/ QueryReturn(p)

\* goroutines calling the store concurrently
Next == \E p \in Procs : StoreOps(p)

Spec == Init /\ [][Next]_vars

\* one client that fills the store and asks questions through RAGService
Client == "p1"

QueryNext == StoreOps(Client) \/ QueryOps(Client)

QuerySpec == Init /\ [][QueryNext]_vars

\* a Ranker called once on an items slice of the caller
RankInit ==
    /\ NewMemoryRetriever
    /\ items \in ItemLists
    /\ ranked = NoRanked
    /\ stream = NoStream
    /\ gs = NoGs

RankNext ==
    \/ SimpleRank
    \/ \E threshold \in Thresholds : Rerank(threshold)
    \/ BM25Rank

RankSpec == RankInit /\ [][RankNext]_vars

\* one GenerateStream call on a backend stream and a callback of the caller
StreamInit ==
    /\ NewMemoryRetriever
    /\ items = <<>>
    /\ ranked = NoRanked
    /\ stream \in Streams
    /\ gs = NoGs

StreamNext ==
    \/ MockStart
    \/ MockWord
    \/ MockReturn
    \/ OllamaStart
    \/ OllamaChunk
    \/ OllamaEOF

StreamSpec == StreamInit /\ [][StreamNext]_vars

(* ------------------------------------------------------------------ *)
(* Properties                                                          *)
(* ------------------------------------------------------------------ *)

\* a Retrieve of p has built its result and still holds the read lock
Retrieved(p) == pc[p] = "ret_ret" /\ res[p].status = "ok"

ResultIds(r) == {r[i].Document.ID : i \in 1 .. Len(r)}

Min(x, y) == IF x < y THEN x ELSE y

\* C1: for topK >= 1 Retrieve does not panic, and what it returns has at
\* most topK results, each the entry the store holds under that id, no id
\* twice, scores non-increasing.
RetrieveBoundedSorted ==
    \A p \in Procs :
        (pc[p] = "ret_ret" /\ args[p].topK >= 1) =>
            /\ res[p].status \in {"ok", "error"}
            /\ LET r == res[p].results
               IN  /\ Len(r) <= args[p].topK
                   /\ \A i \in 1 .. Len(r) :
                        /\ r[i].Document.ID \in DOMAIN documents
                        /\ documents[r[i].Document.ID] = r[i].Document
                   /\ \A i, j \in 1 .. Len(r) :
                        /\ (r[i].Document.ID = r[j].Document.ID => i = j)
                        /\ (i < j => ~ScoreLess(r[i].Score, r[j].Score))

\* C1 witness: two results of different scores
RetrieveTwoRanked ==
    \E p \in Procs :
        /\ Retrieved(p)
        /\ Len(res[p].results) = 2
        /\ ScoreLess(res[p].results[2].Score, res[p].results[1].Score)

\* C2: for topK >= 1 Retrieve returns exactly min(topK, entry count)
\* results, and no entry left out scores strictly higher than a returned one.
RetrieveExactTopK ==
    \A p \in Procs :
        (Retrieved(p) /\ args[p].topK >= 1) =>
            LET r == res[p].results
            IN  /\ Len(r) = Min(args[p].topK, Cardinality(DOMAIN documents))
                /\ \A id \in (DOMAIN documents) \ ResultIds(r) :
                     \A i \in 1 .. Len(r) :
                        ~ScoreLess(r[i].Score,
                                   cosineSimilarity(res[p].qv, VectorAt(vectors, id)))

\* C2 witness: topK = 1 over two entries, the one left out scoring lower
RetrieveCutsLower ==
    \E p \in Procs :
        /\ Retrieved(p)
        /\ args[p].topK = 1
        /\ Len(res[p].results) = 1
        /\ \E id \in (DOMAIN documents) \ ResultIds(res[p].results) :
             ScoreLess(cosineSimilarity(res[p].qv, VectorAt(vectors, id)),
                       res[p].results[1].Score)

\* C3: an id whose DeleteDocument has been applied, and that no AddDocuments
\* has written since, is in no Retrieve result.
DeletedNeverRetrieved ==
    \A p \in Procs :
        pc[p] = "ret_ret" =>
            \A i \in 1 .. Len(res[p].results) :
                tomb[res[p].results[i].Document.ID] = "no"

\* C3 witness: a Retrieve returns results while an id that was the top
\* match when it was deleted is still deleted
RetrieveAfterTopDeleted ==
    \E p \in Procs :
        /\ Retrieved(p)
        /\ Len(res[p].results) >= 1
        /\ \E id \in IDs : tomb[id] = "deltop"

\* index of the last document of the batch with the id of docs[i]
LastOf(docs, i) ==
    CHOOSE j \in 1 .. Len(docs) :
        /\ docs[j].ID = docs[i].ID
        /\ \A k \in (j + 1) .. Len(docs) : docs[k].ID # docs[i].ID

BatchIds(docs) == {docs[i].ID : i \in 1 .. Len(docs)}

\* an AddDocuments of p has run its loop to the end and still holds the lock
Added(p) == pc[p] = "add_ret" /\ res[p].status = "ok"

\* C4: a successful AddDocuments leaves, for every id of the batch, this
\* call's document and embedding (the last of the batch for that id) as the
\* one entry of that id, touches no other entry, adds no entry for an id
\* already stored, and any Retrieve wide enough to return every entry
\* returns the new document for that id.
UpsertOverwrites ==
    \A p \in Procs :
        Added(p) =>
            LET docs == args[p].docs
                vecs == res[p].vecs
            IN  /\ Len(vecs) >= Len(docs)
                /\ BatchIds(docs) \subseteq (DOMAIN documents) \cap (DOMAIN vectors)
                /\ \A i \in 1 .. Len(docs) :
                     /\ documents[docs[i].ID] = docs[LastOf(docs, i)]
                     /\ vectors[docs[i].ID] = vecs[LastOf(docs, i)]
                /\ DOMAIN documents = (DOMAIN pre.documents) \cup BatchIds(docs)
                /\ DOMAIN vectors = (DOMAIN pre.vectors) \cup BatchIds(docs)
                /\ \A id \in (DOMAIN pre.documents) \ BatchIds(docs) :
                     documents[id] = pre.documents[id]
                /\ \A id \in (DOMAIN pre.vectors) \ BatchIds(docs) :
                     vectors[id] = pre.vectors[id]
                /\ (BatchIds(docs) \subseteq DOMAIN pre.documents =>
                        Cardinality(DOMAIN documents) = Cardinality(DOMAIN pre.documents))
                /\ \A q \in Queries, order \in Orders(DOMAIN documents) :
                     LET r == RetrieveResults(documents, vectors, EmbedVec(q), order,
                                              Cardinality(DOMAIN documents)).results
                     IN  \A i \in 1 .. Len(docs) :
                            \E k \in 1 .. Len(r) : r[k].Document = docs[LastOf(docs, i)]

\* C4 witness: a stored id re-added with another content, metadata and embedding
UpsertReplacedEntry ==
    \E p \in Procs :
        /\ Added(p)
        /\ \E i \in 1 .. Len(args[p].docs) :
             LET id == args[p].docs[i].ID
             IN  /\ id \in DOMAIN pre.documents
                 /\ id \in DOMAIN pre.vectors
                 /\ pre.documents[id].Content # documents[id].Content
                 /\ pre.documents[id].Metadata # documents[id].Metadata
                 /\ pre.vectors[id] # vectors[id]

\* C5: an AddDocuments that does not succeed leaves documents and vectors
\* as it found them.
FailedAddCommitsNothing ==
    \A p \in Procs :
        (pc[p] = "add_ret" /\ res[p].status # "ok") => Store = pre

\* every tuple of the batch of p is stored, with this call's embedding
WholeBatchStored(p) ==
    LET docs == args[p].docs
        vecs == res[p].vecs
    IN  \A i \in 1 .. Len(docs) :
            /\ docs[i].ID \in DOMAIN documents
            /\ docs[i].ID \in DOMAIN vectors
            /\ LastOf(docs, i) <= Len(vecs)
            /\ documents[docs[i].ID] = docs[LastOf(docs, i)]
            /\ vectors[docs[i].ID] = vecs[LastOf(docs, i)]

\* C6: no Retrieve holds the read lock while an AddDocuments holds the write
\* lock, and the store an AddDocuments hands over when it releases the
\* lock, the first a Retrieve can see of it, holds none of the batch's
\* upserts or all of them.
RetrieveSeesWholeBatches ==
    /\ \A p, q \in Procs :
         pc[p] \in {"ret_embed", "ret_ret"} => pc[q] \notin {"add_embed", "add_ret"}
    /\ \A p \in Procs :
         pc[p] = "add_ret" => (Store = pre \/ WholeBatchStored(p))

\* C7: every stored embedding has the store's dimension.
StoredDimension ==
    \A id \in DOMAIN vectors : Len(vectors[id]) = dimension

\* C8: once the query is embedded, Retrieve on an empty store or with
\* topK <= 0 returns an empty list: no error, no panic.
EmptyRetrieveIsEmptyList ==
    \A p \in Procs :
        (/\ pc[p] = "ret_ret"
         /\ res[p].status # "error"
         /\ (DOMAIN documents = {} \/ args[p].topK <= 0)) =>
            (res[p].status = "ok" /\ res[p].results = <<>>)

\* C9: DeleteDocument returns success; of an id the store does not hold it
\* changes nothing; it leaves every other entry as it was; deleting the id
\* once more gives the same store.
DeleteIdempotent ==
    \A p \in Procs :
        pc[p] = "del_ret" =>
            LET id == args[p].id
            IN  /\ res[p].status = "ok"
                /\ ((id \notin DOMAIN pre.documents /\ id \notin DOMAIN pre.vectors)
                        => Store = pre)
                /\ id \notin DOMAIN documents /\ id \notin DOMAIN vectors
                /\ \A k \in (DOMAIN pre.documents) \ {id} :
                     k \in DOMAIN documents /\ documents[k] = pre.documents[k]
                /\ \A k \in (DOMAIN pre.vectors) \ {id} :
                     k \in DOMAIN vectors /\ vectors[k] = pre.vectors[k]
                /\ DeleteEntry(Store, id) = Store

\* C9 witness: an id the store does not hold is deleted from a store that holds another
DeletedAbsentId ==
    \E p \in Procs :
        /\ pc[p] = "del_ret"
        /\ args[p].id \notin DOMAIN pre.documents
        /\ DOMAIN pre.documents # {}

\* C10: a Query whose Retrieve returned an empty list returns the sentinel
\* text and no error, and has not called Generate.
EmptyRetrievalGivesSentinel ==
    \A p \in Procs :
        (qry[p].active /\ qry[p].got = "empty") =>
            /\ pc[p] = "q_ret"
            /\ qry[p].status = "ok"
            /\ qry[p].answer = Sentinel
            /\ qry[p].genCalls = 0
            /\ qry[p].messages = <<>>

\* C10 witness: a Query over the empty store ends with the sentinel
QueryOnEmptyStore ==
    \E p \in Procs :
        /\ pc[p] = "q_ret"
        /\ qry[p].got = "empty"
        /\ DOMAIN documents = {}
        /\ args[p].topK >= 1

\* p is between m.mu.Lock() and the deferred m.mu.Unlock()
Writing(p) == pc[p] \in {"add_embed", "add_ret", "del", "del_ret"}

\* p is between m.mu.RLock() and the deferred m.mu.RUnlock()
Reading(p) == pc[p] \in {"ret_embed", "ret_ret"}

\* C11: while an AddDocuments or a DeleteDocument is inside its critical
\* section it holds the lock as the only writer, and no other AddDocuments,
\* DeleteDocument or Retrieve is inside its own; a Retrieve inside its read
\* section holds the lock as a reader.
LockDiscipline ==
    \A p \in Procs :
        /\ Writing(p) =>
              /\ mu.writer = p
              /\ mu.readers = {}
              /\ \A q \in Procs \ {p} : ~Writing(q) /\ ~Reading(q)
        /\ Reading(p) => (p \in mu.readers /\ mu.writer = None)

\* C11 witness: two Retrieve calls are inside their read sections at once
TwoReaders ==
    \E p, q \in Procs : p # q /\ Reading(p) /\ Reading(q)

\* C12: a store operation whose Embedder call is in flight holds no lock on
\* the store: AddDocuments not the write lock, Retrieve not the read lock.
EmbedOutsideLock ==
    \A p \in Procs :
        /\ pc[p] = "add_embed" => mu.writer # p
        /\ pc[p] = "ret_embed" => p \notin mu.readers

\* out is its rearranged by o: out[k] is its[o[k]], o one-to-one onto the indices
ArrangedBy(out, its, o) ==
    /\ Len(out) = Len(its)
    /\ \A k \in 1 .. Len(out) : out[k] = its[o[k]]

NonIncreasing(out) ==
    \A i, j \in 1 .. Len(out) : i < j => ~ScoreLess(out[i].Score, out[j].Score)

\* C13: what SimpleRanker.Rank returns is a permutation of its input,
\* non-increasing by score, with items of equal score in their input order.
SimpleRankStable ==
    ranked.by = "SimpleRanker" =>
        /\ Len(ranked.result) = Len(items)
        /\ NonIncreasing(ranked.result)
        /\ \E o \in Orders(1 .. Len(items)) :
             /\ ArrangedBy(ranked.result, items, o)
             /\ \A i, j \in 1 .. Len(items) :
                  (i < j /\ items[o[i]].Score = items[o[j]].Score) => o[i] < o[j]

\* C14: what Reranker.Rank returns has no item below the threshold, no id
\* twice, scores non-increasing, only items of the input, and for every id
\* with an input item at or above the threshold an item of that id with the
\* highest such score.
RerankThresholdDedup ==
    ranked.by = "Reranker" =>
        LET r == ranked.result
            kept == {i \in 1 .. Len(items) : ~ScoreLess(items[i].Score, ranked.threshold)}
        IN  /\ \A k \in 1 .. Len(r) : ~ScoreLess(r[k].Score, ranked.threshold)
            /\ \A k, l \in 1 .. Len(r) : r[k].ID = r[l].ID => k = l
            /\ NonIncreasing(r)
            /\ \A k \in 1 .. Len(r) : \E i \in 1 .. Len(items) : items[i] = r[k]
            /\ \A i \in kept :
                 \E k \in 1 .. Len(r) :
                    /\ r[k].ID = items[i].ID
                    /\ \A j \in kept :
                         items[j].ID = items[i].ID => ~ScoreLess(r[k].Score, items[j].Score)

\* C14 witness: the input holds an id twice at or above the threshold with
\* two scores, the lower one first, and an item below the threshold
RerankDroppedBoth ==
    /\ ranked.by = "Reranker"
    /\ Len(ranked.result) < Len(items) - 1
    /\ \E i, j \in 1 .. Len(items) :
         /\ i < j
         /\ items[i].ID = items[j].ID
         /\ ~ScoreLess(items[i].Score, ranked.threshold)
         /\ ScoreLess(items[i].Score, items[j].Score)
    /\ \E i \in 1 .. Len(items) : ScoreLess(items[i].Score, ranked.threshold)

\* C20: what BM25Ranker.Rank returns is its input rearranged, each item with
\* score * (score / max(mean, 0.001)) as its new score, sorted non-increasing
\* by the new score; an item whose score is above the mean of the input
\* scores has a higher new score, one below the mean a lower new score.
BM25AmplifiesAboveMean ==
    (ranked.by = "BM25Ranker" /\ Len(items) > 0) =>
        LET r == ranked.result
            mean == AvgScore(items)
        IN  /\ NonIncreasing(r)
            /\ \E o \in Orders(1 .. Len(items)) :
                 /\ Len(r) = Len(items)
                 /\ \A k \in 1 .. Len(r) :
                      LET old == items[o[k]].Score
                      IN  /\ r[k].ID = items[o[k]].ID
                          /\ r[k].Score = Rescore(old, mean)
                          /\ ScoreLess(mean, old) => ScoreLess(old, r[k].Score)
                          /\ ScoreLess(old, mean) => ScoreLess(r[k].Score, old)

\* the document ids in ascending order, as Go compares strings
IdsAscending == <<"a", "b">>

IdBefore(x, y) ==
    \E i, j \in 1 .. Len(IdsAscending) :
        i < j /\ IdsAscending[i] = x /\ IdsAscending[j] = y

IdList(r) == [i \in 1 .. Len(r) |-> r[i].Document.ID]

\* every entry has its embedding, and it and the query embedding qv have
\* the length the Embedder is configured for
EmbeddingsWellFormed(qv) ==
    /\ DOMAIN vectors = DOMAIN documents
    /\ \A id \in DOMAIN vectors : Len(vectors[id]) = Dim
    /\ Len(qv) = Dim

\* C15 (over a store whose embeddings are well formed): in what Retrieve returns, results of equal score stand in ascending
\* order of id, and the list of ids is the one every Retrieve of this query
\* and topK over these store contents returns, whatever order the range
\* over the documents map takes.
RetrieveDeterministic ==
    \A p \in Procs :
        (Retrieved(p) /\ EmbeddingsWellFormed(res[p].qv)) =>
            LET r == res[p].results
            IN  /\ \A i, j \in 1 .. Len(r) :
                     (i < j /\ r[i].Score = r[j].Score) =>
                        IdBefore(r[i].Document.ID, r[j].Document.ID)
                /\ \A order \in Orders(DOMAIN documents) :
                     IdList(RetrieveResults(documents, vectors, res[p].qv, order,
                                            args[p].topK).results) = IdList(r)

\* C16: a Query whose Retrieve returned an error returns an error of the
\* retrieval stage that wraps Retrieve's error, with no answer text, and
\* has not called Generate.
RetrieveErrorAbortsQuery ==
    \A p \in Procs :
        (qry[p].active /\ qry[p].got = "error") =>
            /\ pc[p] = "q_ret"
            /\ qry[p].status = "error"
            /\ qry[p].stage = "retrieval"
            /\ Head(qry[p].err) = "failed to retrieve documents"
            /\ Tail(qry[p].err) = Wrap("failed to embed query", EmbedderError)
            /\ qry[p].answer = ""
            /\ qry[p].genCalls = 0
            /\ qry[p].messages = <<>>

\* C16 witness: Retrieve fails inside a Query over a store that holds documents
QueryRetrieveFailed ==
    \E p \in Procs :
        /\ pc[p] = "q_ret"
        /\ qry[p].got = "error"
        /\ DOMAIN documents # {}
        /\ args[p].topK >= 1

\* C17: a Query on a service whose retrieval or generation collaborator is
\* unset (a nil Service, or a Service over a nil Retriever or LLM) returns a
\* configuration error at once: no panic, no Retrieve call, no Generate call.
UnsetCollaboratorFailsFast ==
    \A p \in Procs :
        (qry[p].active /\ qry[p].svc # Configured) =>
            /\ pc[p] = "q_ret"
            /\ qry[p].status = "error"
            /\ qry[p].stage = "configuration"
            /\ qry[p].retCalls = 0
            /\ qry[p].genCalls = 0

\* the pieces of a built prompt before the context: the system prompt, the
\* user marker and "Context: "
PromptHead == Len(BuildPrompt(<<>>, {})) - 3

\* C18: when Retrieve hands Query a non-empty list, the one message Query
\* sends to Generate has role "user", and in its prompt the context is the
\* contents of the results in the order of the list, each two consecutive
\* ones separated by two newlines, followed by the question.
ContextInRetrievedOrder ==
    [][\A p \in Procs :
          (pc[p] = "ret_ret" /\ qry[p].active /\ res[p].status = "ok"
             /\ Len(res[p].results) > 0) =>
              LET r == res[p].results
                  n == Len(r)
                  msgs == qry'[p].messages
              IN  /\ pc'[p] = "q_gen"
                  /\ Len(msgs) = 1
                  /\ msgs[1].Role = "user"
                  /\ Len(msgs[1].Content) = PromptHead + (2 * n - 1) + 3
                  /\ msgs[1].Content[PromptHead] = "Context: "
                  /\ \A i \in 1 .. n :
                       msgs[1].Content[PromptHead + 2 * i - 1] = r[i].Document.Content
                  /\ \A i \in 1 .. (n - 1) :
                       msgs[1].Content[PromptHead + 2 * i] = "\n\n"
                  /\ msgs[1].Content[PromptHead + 2 * n] = "\n\nQuestion: "
                  /\ msgs[1].Content[PromptHead + 2 * n + 1] = args[p].query]_vars

\* C18 witness: Generate is being called with a context of two documents
\* of different contents
GenerateOverTwoDocuments ==
    \E p \in Procs :
        /\ pc[p] = "q_gen"
        /\ Len(qry[p].messages) = 1
        /\ Len(qry[p].messages[1].Content) = PromptHead + 3 + 3
        /\ qry[p].messages[1].Content[PromptHead + 1]
             # qry[p].messages[1].Content[PromptHead + 3]

\* C19: a Query calls Retrieve at most once and Generate at most once,
\* Generate exactly when Retrieve returned a non-empty list; when Generate
\* returns an error Query ends with an error of the generation stage that
\* wraps it and no answer; when Generate returns a text Query ends with
\* that text.
NoInternalRetries ==
    \A p \in Procs :
        qry[p].active =>
            /\ qry[p].retCalls <= 1
            /\ qry[p].genCalls <= 1
            /\ pc[p] \in {"ret_embed", "ret_ret"} => qry[p].genCalls = 0
            /\ pc[p] \in {"q_gen", "q_ret"} =>
                  (qry[p].genCalls = 1 <=> qry[p].got = "results")
            /\ qry[p].gen.status # None => (pc[p] = "q_ret" /\ qry[p].genCalls = 1)
            /\ qry[p].gen.status = "error" =>
                  /\ qry[p].status = "error"
                  /\ qry[p].stage = "generation"
                  /\ qry[p].err = Wrap("failed to generate answer", qry[p].gen.err)
                  /\ qry[p].answer = ""
            /\ qry[p].gen.status = "ok" =>
                  /\ qry[p].status = "ok"
                  /\ qry[p].err = NoError
                  /\ qry[p].answer = qry[p].gen.text

\* C19 witness: a Query whose one Generate call failed has ended
QueryGenerateFailed ==
    \E p \in Procs :
        /\ pc[p] = "q_ret"
        /\ qry[p].gen.status = "error"
        /\ qry[p].genCalls = 1

\* chunk i of the stream is a produced fragment: a word of MockLLM, or an
\* Ollama chunk with content that is neither an error chunk nor undecodable
IsFragment(i) ==
    LET c == stream.chunks[i]
    IN  stream.llm = "MockLLM" \/ (~c.bad /\ c.error = "" /\ c.content # "")

\* what the callback is handed for chunk i
FragmentOf(i) ==
    IF stream.llm = "MockLLM"
    THEN <<stream.chunks[i].content, " ">>
    ELSE <<stream.chunks[i].content>>

\* err is, or wraps, the error inner
Wraps(err, inner) ==
    /\ Len(err) >= Len(inner)
    /\ SubSeq(err, Len(err) - Len(inner) + 1, Len(err)) = inner

\* C21: the callback calls made so far are, in order and once each, the
\* fragments produced so far; a callback call that returned an error is the
\* last call, and GenerateStream has returned an error that is or wraps it;
\* a GenerateStream that returned nil has delivered every fragment up to
\* the end of the stream or to Ollama's done chunk; Ollama makes no call
\* for anything after a done chunk, nor for or after an error chunk.
StreamCallbacksInOrder ==
    gs.status # None =>
        LET calls == gs.calls
            read == 1 .. (gs.pos - 1)
        IN  /\ gs.pos <= Len(stream.chunks) + 1
            /\ \A k \in 1 .. Len(calls) :
                 /\ calls[k].at \in read
                 /\ IsFragment(calls[k].at)
                 /\ calls[k].frag = FragmentOf(calls[k].at)
            /\ \A k, l \in 1 .. Len(calls) : k < l => calls[k].at < calls[l].at
            /\ \A i \in read : IsFragment(i) => \E k \in 1 .. Len(calls) : calls[k].at = i
            /\ \A k \in 1 .. Len(calls) :
                 calls[k].ret # NoError =>
                    /\ k = Len(calls)
                    /\ gs.status = "error"
                    /\ Wraps(gs.err, calls[k].ret)
                    /\ stream.llm = "MockLLM" => gs.err = calls[k].ret
            /\ gs.status = "ok" =>
                 /\ gs.err = NoError
                 /\ \A k \in 1 .. Len(calls) : calls[k].ret = NoError
                 /\ \/ gs.pos = Len(stream.chunks) + 1
                    \/ stream.llm = "Ollama" /\ stream.chunks[gs.pos - 1].done
            /\ stream.llm = "Ollama" =>
                 \A i \in read :
                    /\ stream.chunks[i].done =>
                          \A k \in 1 .. Len(calls) : calls[k].at <= i
                    /\ stream.chunks[i].error # "" =>
                          \A k \in 1 .. Len(calls) : calls[k].at < i

\* C21 witness: Ollama's second callback call returned an error while the
\* stream still held a fragment, and GenerateStream has returned
StreamStoppedByCallback ==
    /\ stream.llm = "Ollama"
    /\ gs.status = "error"
    /\ Len(gs.calls) = 2
    /\ gs.calls[2].ret # NoError
    /\ gs.calls[1].frag # gs.calls[2].frag
    /\ gs.pos <= Len(stream.chunks)
    /\ IsFragment(gs.pos)

\* every document has a stored embedding of the store's dimension
StoredEmbeddingsWellFormed ==
    \A id \in DOMAIN documents :
        id \in DOMAIN vectors /\ Len(vectors[id]) = dimension

\* C22 (over a store whose stored embeddings are well formed): a Retrieve
\* with topK >= 1 whose query embedding differs in length from a stored embedding ends
\* with an error, not with a result list; and no result has score 0 for an
\* entry whose embedding differs in length from the query embedding.
LengthMismatchIsError ==
    \A p \in Procs :
        (/\ pc[p] = "ret_ret"
         /\ res[p].status # "error"
         /\ args[p].topK >= 1
         /\ StoredEmbeddingsWellFormed) =>
            /\ (\E id \in DOMAIN documents : Len(vectors[id]) # Len(res[p].qv))
                  => res[p].status # "ok"
            /\ \A i \in 1 .. Len(res[p].results) :
                  res[p].results[i].Score = ZeroScore =>
                     Len(vectors[res[p].results[i].Document.ID]) = Len(res[p].qv)

\* C23: whenever no AddDocuments or DeleteDocument is inside its critical
\* section, whether the calls before returned or failed, the documents map
\* and the vectors map have the same keys, and every document is stored
\* under its own id; so a Retrieve that has scored the entries found an
\* embedding for each.
MapsSameKeys ==
    /\ mu.writer = None =>
          /\ DOMAIN documents = DOMAIN vectors
          /\ \A k \in DOMAIN documents : documents[k].ID = k
    /\ \A p \in Procs :
         Retrieved(p) =>
            \A i \in 1 .. Len(res[p].results) :
                res[p].results[i].Document.ID \in DOMAIN vectors

====
